---- MODULE Spec2Model ----
(* A model of the three interior-mutability primitives of the repository: *)
(* MyCell (src/src/cell.rs), MyRc (src/src/rc.rs), MyRefCell with its     *)
(* Ref / RefMut guards (src/src/refcell.rs).                               *)
EXTENDS Integers, FiniteSets, Sequences, TLC

(***************************************************************************)
(* Bounds of the model.                                                    *)
(***************************************************************************)
\* width of usize in the model (bits); counts are kept modulo 2^UsizeBits
UsizeBits == 3
\* number of guard identities that can be live at once on the MyRefCell
MaxGuards == 3
\* number of MyRc handle identities that can be live at once
MaxHandles == 3
\* number of RcInner allocations a run can create
MaxAllocs == 2
\* a run is followed up to this many releases of one allocation
MaxFrees == 2
\* the values of a MyRefCell and of a MyCell are 0..MaxVal
MaxVal == 2
\* the values of an RcInner are 0..MaxRcVal
MaxRcVal == 1
\* number of MyCell objects of the MyCell runs
MaxCells == 3

UsizeMod == 2 ^ UsizeBits
Usize == 0 .. (UsizeMod - 1)
Values == 0 .. MaxVal
RcValues == 0 .. MaxRcVal
GuardIds == 1 .. MaxGuards
HandleIds == 1 .. MaxHandles
AllocIds == 1 .. MaxAllocs
CellIds == 1 .. MaxCells
\* the two threads of the two-thread runs of MyRc
ThreadIds == {1, 2}
\* the handles of the two-thread runs: one more than MaxHandles, so that two
\* lost increments leave a count two below the number of live handles
ThreadHandleIds == 1 .. (MaxHandles + 1)
\* enough guards to take the shared count of a MyRefCell through usize::MAX
WrapGuardIds == 1 .. UsizeMod
\* enough handles to take ref_count through usize::MAX and on to 1
WrapHandleIds == 1 .. (UsizeMod + 1)

\* what a + b or a - b evaluates to when the result does not fit in usize and
\* the build checks overflow: no value, the expression panics ("attempt to
\* add with overflow", "attempt to subtract with overflow")
Overflow == 0 - 1

\* a + b on usize.  checks is the build's overflow-checks setting: on (what
\* cargo builds by default), a sum that does not fit panics; off (what
\* cargo build --release builds), it wraps at the width of the type
UsizeAdd(a, b, checks) ==
  IF a + b < UsizeMod
    THEN a + b
    ELSE IF checks THEN Overflow ELSE (a + b) % UsizeMod

\* a - b on usize, likewise
UsizeSub(a, b, checks) ==
  IF a >= b
    THEN a - b
    ELSE IF checks THEN Overflow ELSE (a - b + UsizeMod) % UsizeMod

(***************************************************************************)
(* MyCell<T>: one value slot, read and written by value.                   *)
(***************************************************************************)
MyCell_new(v) == [value |-> v]
MyCell_get(c) == c.value
\* set that leaves the slot as it was
MyCell_set_keep(c, v) == c

MyCell_set(c, v) == [c EXCEPT !.value = v]

\* swap that copies other into self and leaves other as it was
MyCell_swap_copy(self, other, same) ==
  IF same
    THEN <<self, other>>
    ELSE <<[self EXCEPT !.value = other.value], other>>

\* MyCell::swap: the two cells after the call; same is ptr::eq(self, other)
MyCell_swap(self, other, same) ==
  IF same
    THEN <<self, other>>
    ELSE <<[self EXCEPT !.value = other.value], [other EXCEPT !.value = self.value]>>

(***************************************************************************)
(* RefState, the borrow state of a MyRefCell.                              *)
(***************************************************************************)
Unshared == [tag |-> "Unshared", n |-> 0]
Exclusive == [tag |-> "Exclusive", n |-> 0]
Shared(k) == [tag |-> "Shared", n |-> k]
RefState == {Unshared, Exclusive} \cup {Shared(k) : k \in Usize}

VARIABLES
  value,      \* MyRefCell.value: the interior value
  reference,  \* MyRefCell.reference: a MyCell holding the RefState
  refs,       \* the Ref guards handed out and not yet dropped
  muts,       \* the RefMut guards handed out and not yet dropped
  panicked,   \* an unreachable!() of a guard's drop has been executed
  last,       \* the MyRefCell operation executed last and what it returned
  heap,       \* the RcInner allocations, by allocation identity
  handles,    \* MyRc handle identity -> allocation it points to (0: not live)
  rclast,     \* the MyRc operation executed last and what it did
  cells,      \* the MyCell objects, by identity
  shadow,     \* per MyCell: the argument of new or of the latest set
  clast,      \* the MyCell operation executed last and what it returned
  tstate,     \* per thread: the MyRc clone or drop it is in the middle of
  overflow_checks  \* the build's overflow-checks setting, fixed for a run

cellvars == <<value, reference, refs, muts, panicked, last>>
rcvars == <<heap, handles, rclast>>
mycellvars == <<cells, shadow, clast>>
vars == <<value, reference, refs, muts, panicked, last, heap, handles, rclast,
          cells, shadow, clast, tstate, overflow_checks>>

(***************************************************************************)
(* MyRefCell::borrow and MyRefCell::borrow_mut: the new content of the     *)
(* reference cell, whether a guard is returned, and for borrow whether the *)
(* call panicked in n + 1.                                                 *)
(***************************************************************************)
\* borrow with the increment of the shared count left out
MyRefCell_borrow_noinc(ref) ==
  LET s == MyCell_get(ref) IN
  CASE s.tag = "Unshared" ->
         [reference |-> MyCell_set(ref, Shared(1)), some |-> TRUE, panic |-> FALSE]
    [] s.tag = "Shared" ->
         [reference |-> MyCell_set(ref, Shared(s.n)), some |-> TRUE, panic |-> FALSE]
    [] OTHER -> [reference |-> ref, some |-> FALSE, panic |-> FALSE]

\* borrow that does not look for an exclusive borrow
MyRefCell_borrow_any(ref) ==
  LET s == MyCell_get(ref) IN
  CASE s.tag = "Shared" ->
         [reference |-> MyCell_set(ref, Shared(UsizeAdd(s.n, 1, FALSE))),
          some |-> TRUE, panic |-> FALSE]
    [] OTHER -> [reference |-> MyCell_set(ref, Shared(1)), some |-> TRUE, panic |-> FALSE]

\* MyRefCell::borrow.  In Shared(n) the new count is n + 1; when that
\* expression panics nothing is stored and the call returns nothing
MyRefCell_borrow(ref) ==
  LET s == MyCell_get(ref) IN
  CASE s.tag = "Unshared" ->
         [reference |-> MyCell_set(ref, Shared(1)), some |-> TRUE, panic |-> FALSE]
    [] s.tag = "Shared" ->
         LET m == UsizeAdd(s.n, 1, overflow_checks) IN
         IF m = Overflow
           THEN [reference |-> ref, some |-> FALSE, panic |-> TRUE]
           ELSE [reference |-> MyCell_set(ref, Shared(m)), some |-> TRUE, panic |-> FALSE]
    [] OTHER -> [reference |-> ref, some |-> FALSE, panic |-> FALSE]

\* borrow_mut that is denied by an exclusive borrow only
MyRefCell_borrow_mut_shared(ref) ==
  LET s == MyCell_get(ref) IN
  CASE s.tag = "Exclusive" -> [reference |-> ref, some |-> FALSE]
    [] OTHER -> [reference |-> MyCell_set(ref, Exclusive), some |-> TRUE]

\* borrow_mut that never checks the state
MyRefCell_borrow_mut_always(ref) ==
  [reference |-> MyCell_set(ref, Exclusive), some |-> TRUE]

\* borrow_mut that marks the cell Exclusive before it denies the borrow
MyRefCell_borrow_mut_dirty(ref) ==
  LET s == MyCell_get(ref) IN
  CASE s.tag = "Unshared" -> [reference |-> MyCell_set(ref, Exclusive), some |-> TRUE]
    [] OTHER -> [reference |-> MyCell_set(ref, Exclusive), some |-> FALSE]

MyRefCell_borrow_mut(ref) ==
  LET s == MyCell_get(ref) IN
  CASE s.tag = "Unshared" -> [reference |-> MyCell_set(ref, Exclusive), some |-> TRUE]
    [] OTHER -> [reference |-> ref, some |-> FALSE]

(***************************************************************************)
(* Drop for Ref and Drop for RefMut: the new content of the reference cell *)
(* and whether the unreachable!() branch was taken.                        *)
(***************************************************************************)
\* Drop for Ref that goes back to Unshared whatever the count
Ref_drop_reset(ref) ==
  LET s == MyCell_get(ref) IN
  IF s.tag = "Shared"
    THEN [reference |-> MyCell_set(ref, Unshared), panic |-> FALSE]
    ELSE [reference |-> ref, panic |-> TRUE]

\* Drop for Ref that counts down to Shared(0)
Ref_drop_tozero(ref) ==
  LET s == MyCell_get(ref) IN
  IF s.tag = "Shared"
    THEN IF s.n > 0
           THEN [reference |-> MyCell_set(ref, Shared(s.n - 1)), panic |-> FALSE]
           ELSE [reference |-> MyCell_set(ref, Unshared), panic |-> FALSE]
    ELSE [reference |-> ref, panic |-> TRUE]

Ref_drop(ref) ==
  LET s == MyCell_get(ref) IN
  IF s.tag = "Shared"
    THEN IF s.n > 1
           THEN [reference |-> MyCell_set(ref, Shared(s.n - 1)), panic |-> FALSE]
           ELSE [reference |-> MyCell_set(ref, Unshared), panic |-> FALSE]
    ELSE [reference |-> ref, panic |-> TRUE]

\* Drop for RefMut that leaves the state Exclusive
RefMut_drop_keep(ref) ==
  LET s == MyCell_get(ref) IN
  IF s.tag = "Exclusive"
    THEN [reference |-> ref, panic |-> FALSE]
    ELSE [reference |-> ref, panic |-> TRUE]

RefMut_drop(ref) ==
  LET s == MyCell_get(ref) IN
  IF s.tag = "Exclusive"
    THEN [reference |-> MyCell_set(ref, Unshared), panic |-> FALSE]
    ELSE [reference |-> ref, panic |-> TRUE]

\* the record kept in last
Op(op, pre, some, read) == [op |-> op, pre |-> pre, some |-> some, read |-> read]

\* MyRefCell::new(v)
MyRefCell_new(v) ==
  /\ value = v
  /\ reference = MyCell_new(Unshared)
  /\ refs = {}
  /\ muts = {}
  /\ panicked = FALSE
  /\ last = Op("new", Unshared, FALSE, v)

\* cell.borrow(); a granted call binds the new Ref to a guard identity g; a
\* call that panicked in n + 1 is recorded as "borrow_panic"
Borrow(g) ==
  LET r == MyRefCell_borrow(reference) IN
  /\ r.some => g \notin refs \cup muts
  /\ reference' = r.reference
  /\ refs' = IF r.some THEN refs \cup {g} ELSE refs
  /\ last' = Op(IF r.panic THEN "borrow_panic" ELSE "borrow",
               MyCell_get(reference), r.some, value)
  /\ UNCHANGED <<value, muts, panicked>>

\* cell.borrow_mut(); a granted call binds the new RefMut to g
BorrowMut(g) ==
  LET r == MyRefCell_borrow_mut(reference) IN
  /\ r.some => g \notin refs \cup muts
  /\ reference' = r.reference
  /\ muts' = IF r.some THEN muts \cup {g} ELSE muts
  /\ last' = Op("borrow_mut", MyCell_get(reference), r.some, value)
  /\ UNCHANGED <<value, refs, panicked>>

\* the Ref guard g goes out of scope
DropRef(g) ==
  LET r == Ref_drop(reference) IN
  /\ g \in refs
  /\ reference' = r.reference
  /\ refs' = refs \ {g}
  /\ panicked' = (panicked \/ r.panic)
  /\ last' = Op("drop_ref", MyCell_get(reference), FALSE, value)
  /\ UNCHANGED <<value, muts>>

\* the RefMut guard g goes out of scope
DropRefMut(g) ==
  LET r == RefMut_drop(reference) IN
  /\ g \in muts
  /\ reference' = r.reference
  /\ muts' = muts \ {g}
  /\ panicked' = (panicked \/ r.panic)
  /\ last' = Op("drop_mut", MyCell_get(reference), FALSE, value)
  /\ UNCHANGED <<value, refs>>

\* *g through Deref of a Ref or a RefMut: reads the interior value
DerefGuard(g) ==
  /\ g \in refs \cup muts
  /\ last' = Op("deref", MyCell_get(reference), FALSE, value)
  /\ UNCHANGED <<value, reference, refs, muts, panicked>>

\* a write that any guard, a Ref too, can make
DerefMutWrite_any(g, v) ==
  /\ g \in refs \cup muts
  /\ value' = v
  /\ last' = Op("write", MyCell_get(reference), FALSE, v)
  /\ UNCHANGED <<reference, refs, muts, panicked>>

\* *g = v through DerefMut of a RefMut: writes the interior value
DerefMutWrite(g, v) ==
  /\ g \in muts
  /\ value' = v
  /\ last' = Op("write", MyCell_get(reference), FALSE, v)
  /\ UNCHANGED <<reference, refs, muts, panicked>>

(***************************************************************************)
(* MyRc<T> and RcInner<T>.  An allocation is a record: its status          *)
(* ("unalloc" before MyRc::new creates it, "live", "freed" after           *)
(* Box::from_raw released it), the value and the ref_count cell as last    *)
(* stored by the code, and the number of times it has been released.       *)
(***************************************************************************)
NoAlloc == [status |-> "unalloc", value |-> 0, ref_count |-> MyCell_new(0), frees |-> 0]

\* Box::new(RcInner { ref_count: MyCell::new(1), value })
RcInner_new(v) == [status |-> "live", value |-> v, ref_count |-> MyCell_new(1), frees |-> 0]

\* what inner.ref_count.get() can return: the stored count of a live
\* allocation; any usize when the allocation has been freed (use after free)
ReadRefCount(inner) ==
  IF inner.status = "live" THEN {MyCell_get(inner.ref_count)} ELSE Usize

\* what &inner.value can read: likewise
ReadValue(inner) ==
  IF inner.status = "live" THEN {inner.value} ELSE RcValues

\* clone that does not count the new handle
MyRc_clone_noinc(inner, current_refs) == inner

\* clone that adds 1 to the count stored at the time of the write
MyRc_clone_atomic(inner, current_refs) ==
  [inner EXCEPT !.ref_count = MyCell_set(@, UsizeAdd(MyCell_get(@), 1, FALSE))]

\* current_refs + 1 of clone panics: clone stores nothing, returns no handle
ClonePanics(current_refs) == UsizeAdd(current_refs, 1, overflow_checks) = Overflow

\* current_refs - 1 of drop is evaluated and panics: drop stores nothing
DropPanics(current_refs) ==
  current_refs # 1 /\ UsizeSub(current_refs, 1, overflow_checks) = Overflow

\* Clone for MyRc, on the allocation: current_refs is the count it read
MyRc_clone(inner, current_refs) ==
  IF ClonePanics(current_refs)
    THEN inner
    ELSE [inner EXCEPT !.ref_count =
            MyCell_set(@, UsizeAdd(current_refs, 1, overflow_checks))]

\* drop that decrements and never releases the allocation
MyRc_drop_leak(inner, current_refs) ==
  [inner EXCEPT !.ref_count = MyCell_set(@, UsizeSub(current_refs, 1, FALSE))]

\* drop that does not store the decremented count
MyRc_drop_nodec(inner, current_refs) ==
  IF current_refs = 1
    THEN [inner EXCEPT !.status = "freed", !.frees = @ + 1]
    ELSE inner

\* drop that stores the decremented count before it releases the allocation
MyRc_drop_zero(inner, current_refs) ==
  IF current_refs = 1
    THEN [inner EXCEPT !.status = "freed", !.frees = @ + 1,
                       !.ref_count = MyCell_set(@, UsizeSub(current_refs, 1, FALSE))]
    ELSE [inner EXCEPT !.ref_count = MyCell_set(@, UsizeSub(current_refs, 1, FALSE))]

\* drop that releases the allocation one handle too early
MyRc_drop_early(inner, current_refs) ==
  IF current_refs <= 2
    THEN [inner EXCEPT !.status = "freed", !.frees = @ + 1]
    ELSE [inner EXCEPT !.ref_count = MyCell_set(@, UsizeSub(current_refs, 1, FALSE))]

\* Drop for MyRc, on the allocation: current_refs is the count it read
MyRc_drop(inner, current_refs) ==
  IF current_refs = 1
    THEN [inner EXCEPT !.status = "freed", !.frees = @ + 1]
    ELSE IF DropPanics(current_refs)
      THEN inner
      ELSE [inner EXCEPT !.ref_count =
              MyCell_set(@, UsizeSub(current_refs, 1, overflow_checks))]

\* the record kept in rclast
RcOp(op, h, a, read) == [op |-> op, h |-> h, a |-> a, read |-> read]

\* the live handles of allocation a
HandlesOf(a) == {h \in DOMAIN handles : handles[h] = a}

\* no allocation and no handle yet; H is the set of handle identities
RcInitWith(H) ==
  /\ heap = [a \in AllocIds |-> NoAlloc]
  /\ handles = [h \in H |-> 0]
  /\ rclast = RcOp("init", 0, 0, 0)

RcInit == RcInitWith(HandleIds)

\* let h = MyRc::new(v), allocating a
RcNew(a, h, v) ==
  /\ heap[a].status = "unalloc"
  /\ handles[h] = 0
  /\ heap' = [heap EXCEPT ![a] = RcInner_new(v)]
  /\ handles' = [handles EXCEPT ![h] = a]
  /\ rclast' = RcOp("new", h, a, v)

\* let h2 = h.clone(); a clone that panicked in current_refs + 1 creates no
\* handle (h2 plays no part) and is recorded as "clone_panic"
RcClone(h, h2) ==
  /\ handles[h] # 0
  /\ \E current_refs \in ReadRefCount(heap[handles[h]]) :
       /\ heap' = [heap EXCEPT ![handles[h]] = MyRc_clone(@, current_refs)]
       /\ IF ClonePanics(current_refs)
            THEN /\ handles' = handles
                 /\ rclast' = RcOp("clone_panic", h, handles[h], current_refs)
            ELSE /\ handles[h2] = 0
                 /\ handles' = [handles EXCEPT ![h2] = handles[h]]
                 /\ rclast' = RcOp("clone", h2, handles[h], current_refs)

\* *h
RcDeref(h) ==
  /\ handles[h] # 0
  /\ \E v \in ReadValue(heap[handles[h]]) :
       rclast' = RcOp("deref", h, handles[h], v)
  /\ UNCHANGED <<heap, handles>>

\* h goes out of scope; a drop that panicked in current_refs - 1 is recorded
\* as "drop_panic" (the handle is gone all the same)
RcDrop(h) ==
  /\ handles[h] # 0
  /\ \E current_refs \in ReadRefCount(heap[handles[h]]) :
       /\ heap' = [heap EXCEPT ![handles[h]] = MyRc_drop(@, current_refs)]
       /\ rclast' = RcOp(IF DropPanics(current_refs) THEN "drop_panic" ELSE "drop",
                        h, handles[h], current_refs)
  /\ handles' = [handles EXCEPT ![h] = 0]

(***************************************************************************)
(* Clone and Drop for MyRc as two threads would run them: the read of       *)
(* ref_count (get) and the store (set) are separate steps, and a step of    *)
(* the other thread can fall between them.                                  *)
(***************************************************************************)
Idle == [pc |-> "idle", h |-> 0, h2 |-> 0, a |-> 0, current_refs |-> 0]

\* the handles an operation in progress is using or creating
Busy == {tstate[t].h : t \in ThreadIds} \cup {tstate[t].h2 : t \in ThreadIds}

\* thread t: let h = MyRc::new(v)
TNew(t, a, h, v) ==
  /\ tstate[t].pc = "idle"
  /\ h \notin Busy
  /\ RcNew(a, h, v)
  /\ UNCHANGED tstate

\* thread t, h.clone(): let current_refs = inner.ref_count.get().  h2 is
\* the identity of the handle the call will return; a call whose
\* current_refs + 1 will panic returns none (h2 recorded as 0)
TCloneRead(t, h, h2) ==
  /\ tstate[t].pc = "idle"
  /\ handles[h] # 0
  /\ \A u \in ThreadIds : tstate[u].pc = "drop" => tstate[u].h # h
  /\ \E current_refs \in ReadRefCount(heap[handles[h]]) :
       /\ ~ClonePanics(current_refs) => (handles[h2] = 0 /\ h2 \notin Busy)
       /\ tstate' = [tstate EXCEPT ![t] =
            [pc |-> "clone", h |-> h,
             h2 |-> IF ClonePanics(current_refs) THEN 0 ELSE h2,
             a |-> handles[h], current_refs |-> current_refs]]
  /\ UNCHANGED rcvars

\* thread t, h.clone(): inner.ref_count.set(current_refs + 1); MyRc { .. }
TCloneWrite(t) ==
  LET ts == tstate[t] IN
  /\ ts.pc = "clone"
  /\ heap' = [heap EXCEPT ![ts.a] = MyRc_clone(@, ts.current_refs)]
  /\ IF ClonePanics(ts.current_refs)
       THEN /\ handles' = handles
            /\ rclast' = RcOp("clone_panic", ts.h, ts.a, ts.current_refs)
       ELSE /\ handles' = [handles EXCEPT ![ts.h2] = ts.a]
            /\ rclast' = RcOp("clone", ts.h2, ts.a, ts.current_refs)
  /\ tstate' = [tstate EXCEPT ![t] = Idle]

\* thread t, drop of h: let current_refs = inner.ref_count.get()
TDropRead(t, h) ==
  /\ tstate[t].pc = "idle"
  /\ handles[h] # 0
  /\ h \notin Busy
  /\ \E current_refs \in ReadRefCount(heap[handles[h]]) :
       tstate' = [tstate EXCEPT ![t] =
         [pc |-> "drop", h |-> h, h2 |-> 0, a |-> handles[h], current_refs |-> current_refs]]
  /\ UNCHANGED rcvars

\* thread t, drop of h: the if on current_refs, Box::from_raw or set
TDropWrite(t) ==
  LET ts == tstate[t] IN
  /\ ts.pc = "drop"
  /\ heap' = [heap EXCEPT ![ts.a] = MyRc_drop(@, ts.current_refs)]
  /\ handles' = [handles EXCEPT ![ts.h] = 0]
  /\ rclast' = RcOp(IF DropPanics(ts.current_refs) THEN "drop_panic" ELSE "drop",
                    ts.h, ts.a, ts.current_refs)
  /\ tstate' = [tstate EXCEPT ![t] = Idle]

(***************************************************************************)
(* MyCell objects.  Every reference to a cell names it by its identity.    *)
(***************************************************************************)
\* the record kept in clast
CellOp(op, c, d, v) == [op |-> op, c |-> c, d |-> d, v |-> v]

\* cells[c] = MyCell::new(f[c])
MyCellInit(f) ==
  /\ cells = [c \in CellIds |-> MyCell_new(f[c])]
  /\ shadow = [c \in CellIds |-> [v |-> f[c], by |-> "new"]]
  /\ clast = CellOp("new", 0, 0, 0)
  /\ tstate = [t \in ThreadIds |-> Idle]

\* c.set(v)
CellSet(c, v) ==
  /\ cells' = [cells EXCEPT ![c] = MyCell_set(@, v)]
  /\ shadow' = [shadow EXCEPT ![c] = [v |-> v, by |-> "set"]]
  /\ clast' = CellOp("set", c, 0, v)

\* c.get()
CellGet(c) ==
  /\ clast' = CellOp("get", c, 0, MyCell_get(cells[c]))
  /\ UNCHANGED <<cells, shadow>>

\* c.swap(&d)
CellSwap(c, d) ==
  LET r == MyCell_swap(cells[c], cells[d], c = d) IN
  /\ cells' = [e \in CellIds |-> IF e = c THEN r[1] ELSE IF e = d THEN r[2] ELSE cells[e]]
  /\ clast' = CellOp("swap", c, d, 0)
  /\ UNCHANGED shadow

(***************************************************************************)
(* Specifications.  SpecRefCell: one MyRefCell under any sequence of its   *)
(* operations.  SpecRc: MyRc allocations under any sequence of new, clone, *)
(* deref and drop.                                                         *)
(***************************************************************************)
\* the program is built with overflow checks on or off
Build == overflow_checks \in BOOLEAN

Init ==
  /\ Build
  /\ \E v \in Values : MyRefCell_new(v)
  /\ RcInit
  /\ MyCellInit([c \in CellIds |-> 0])

\* the MyCell runs: cells created with any values, then set and get
\* (SpecMyCellSetGet) or swap and get (SpecMyCell) through any reference
InitMyCell ==
  /\ Build
  /\ MyRefCell_new(0)
  /\ RcInit
  /\ \E f \in [CellIds -> Values] : MyCellInit(f)

NextMyCellSetGet ==
  \/ \E c \in CellIds, v \in Values : CellSet(c, v) /\ UNCHANGED <<cellvars, rcvars, tstate, overflow_checks>>
  \/ \E c \in CellIds : CellGet(c) /\ UNCHANGED <<cellvars, rcvars, tstate, overflow_checks>>

NextMyCell ==
  \/ \E c \in CellIds : CellGet(c) /\ UNCHANGED <<cellvars, rcvars, tstate, overflow_checks>>
  \/ \E c \in CellIds, d \in CellIds : CellSwap(c, d) /\ UNCHANGED <<cellvars, rcvars, tstate, overflow_checks>>

SpecMyCellSetGet == InitMyCell /\ [][NextMyCellSetGet]_vars
SpecMyCell == InitMyCell /\ [][NextMyCell]_vars

NextRefCell ==
  \/ \E g \in GuardIds : Borrow(g) /\ UNCHANGED <<rcvars, mycellvars, tstate, overflow_checks>>
  \/ \E g \in GuardIds : BorrowMut(g) /\ UNCHANGED <<rcvars, mycellvars, tstate, overflow_checks>>
  \/ \E g \in GuardIds : DropRef(g) /\ UNCHANGED <<rcvars, mycellvars, tstate, overflow_checks>>
  \/ \E g \in GuardIds : DropRefMut(g) /\ UNCHANGED <<rcvars, mycellvars, tstate, overflow_checks>>
  \/ \E g \in GuardIds : DerefGuard(g) /\ UNCHANGED <<rcvars, mycellvars, tstate, overflow_checks>>
  \/ \E g \in GuardIds, v \in Values : DerefMutWrite(g, v) /\ UNCHANGED <<rcvars, mycellvars, tstate, overflow_checks>>

\* allocations are interchangeable, so a run gives MyRc::new the least
\* identity not yet used
LeastUnalloc(a) ==
  heap[a].status = "unalloc" /\ \A k \in AllocIds : k < a => heap[k].status # "unalloc"

NextRc ==
  \/ \E a \in AllocIds, h \in HandleIds, v \in RcValues :
       LeastUnalloc(a) /\ RcNew(a, h, v) /\ UNCHANGED <<cellvars, mycellvars, tstate, overflow_checks>>
  \/ \E h \in HandleIds, h2 \in HandleIds : RcClone(h, h2) /\ UNCHANGED <<cellvars, mycellvars, tstate, overflow_checks>>
  \/ \E h \in HandleIds : RcDeref(h) /\ UNCHANGED <<cellvars, mycellvars, tstate, overflow_checks>>
  \/ \E h \in HandleIds : RcDrop(h) /\ UNCHANGED <<cellvars, mycellvars, tstate, overflow_checks>>

\* the same operations with as many guards and handles as usize has values,
\* each left live (or leaked with mem::forget) until it is dropped
\* guards are interchangeable, so a run binds a new guard to the least free
\* identity and releases the greatest live Ref or RefMut
LeastFreeGuard(g) ==
  g \notin refs \cup muts /\ \A k \in WrapGuardIds : k < g => k \in refs \cup muts
GreatestRef(g) == g \in refs /\ \A k \in refs : k <= g
GreatestRefMut(g) == g \in muts /\ \A k \in muts : k <= g
\* every guard identity is in use: only a call that returns no guard runs
NoFreeGuard == WrapGuardIds \subseteq refs \cup muts

NextRefCellWrap ==
  \/ \E g \in WrapGuardIds :
       (LeastFreeGuard(g) \/ NoFreeGuard) /\ Borrow(g) /\ UNCHANGED <<rcvars, mycellvars, tstate, overflow_checks>>
  \/ \E g \in WrapGuardIds :
       (LeastFreeGuard(g) \/ NoFreeGuard) /\ BorrowMut(g) /\ UNCHANGED <<rcvars, mycellvars, tstate, overflow_checks>>
  \/ \E g \in WrapGuardIds : GreatestRef(g) /\ DropRef(g) /\ UNCHANGED <<rcvars, mycellvars, tstate, overflow_checks>>
  \/ \E g \in WrapGuardIds : GreatestRefMut(g) /\ DropRefMut(g) /\ UNCHANGED <<rcvars, mycellvars, tstate, overflow_checks>>
  \/ \E g \in WrapGuardIds : DerefGuard(g) /\ UNCHANGED <<rcvars, mycellvars, tstate, overflow_checks>>
  \/ \E g \in WrapGuardIds, v \in Values : DerefMutWrite(g, v) /\ UNCHANGED <<rcvars, mycellvars, tstate, overflow_checks>>

InitRcWrap ==
  /\ Build
  /\ MyRefCell_new(0)
  /\ RcInitWith(WrapHandleIds)
  /\ MyCellInit([c \in CellIds |-> 0])

\* an operation through handle h is followed
Followed(h) == handles[h] # 0 => heap[handles[h]].frees < MaxFrees

\* handles are interchangeable, so a run binds a new handle to the least free
\* identity, drops the greatest live one and clones and reads through the
\* least live one
LeastFree(h) == handles[h] = 0 /\ \A k \in DOMAIN handles : k < h => handles[k] # 0
GreatestLive(h) == handles[h] # 0 /\ \A k \in DOMAIN handles : k > h => handles[k] = 0
LeastLive(h) == handles[h] # 0 /\ \A k \in DOMAIN handles : k < h => handles[k] = 0
\* every handle identity is in use: only a call that returns no handle runs
NoFreeHandle == \A k \in DOMAIN handles : handles[k] # 0

NextRcWrap ==
  \/ \E h \in WrapHandleIds, v \in RcValues :
       LeastFree(h) /\ RcNew(1, h, v) /\ UNCHANGED <<cellvars, mycellvars, tstate, overflow_checks>>
  \/ \E h \in WrapHandleIds, h2 \in WrapHandleIds :
       Followed(h) /\ LeastLive(h) /\ (LeastFree(h2) \/ NoFreeHandle) /\ RcClone(h, h2) /\ UNCHANGED <<cellvars, mycellvars, tstate, overflow_checks>>
  \/ \E h \in WrapHandleIds :
       Followed(h) /\ LeastLive(h) /\ RcDeref(h) /\ UNCHANGED <<cellvars, mycellvars, tstate, overflow_checks>>
  \/ \E h \in WrapHandleIds :
       Followed(h) /\ GreatestLive(h) /\ RcDrop(h) /\ UNCHANGED <<cellvars, mycellvars, tstate, overflow_checks>>

\* the handles a drop in progress is releasing
Dropping == {tstate[t].h : t \in {u \in ThreadIds : tstate[u].pc = "drop"}}

\* handles are interchangeable: a clone is taken from the least handle that
\* is live and not being dropped and bound to the least free identity, a drop
\* releases the greatest live handle that no operation in progress uses
CloneSource(h) ==
  /\ handles[h] # 0
  /\ h \notin Dropping
  /\ \A k \in DOMAIN handles : k < h => (handles[k] = 0 \/ k \in Dropping)
CloneTarget(h2) ==
  /\ handles[h2] = 0
  /\ h2 \notin Busy
  /\ \A k \in DOMAIN handles : k < h2 => (handles[k] # 0 \/ k \in Busy)
DropTarget(h) ==
  /\ handles[h] # 0
  /\ h \notin Busy
  /\ \A k \in DOMAIN handles : k > h => (handles[k] = 0 \/ k \in Busy)
\* every handle identity is in use or spoken for
NoCloneTarget == \A k \in DOMAIN handles : handles[k] # 0 \/ k \in Busy

\* two threads on the handles of one allocation (its payload, 0, plays no part
\* in the count); a run is followed until an operation would start on the
\* deallocated allocation
InitRcThreads ==
  /\ Build
  /\ MyRefCell_new(0)
  /\ RcInitWith(ThreadHandleIds)
  /\ MyCellInit([c \in CellIds |-> 0])

NextRcThreads ==
  \/ \E t \in ThreadIds, h \in ThreadHandleIds :
       LeastFree(h) /\ TNew(t, 1, h, 0) /\ UNCHANGED <<cellvars, mycellvars, overflow_checks>>
  \/ \E t \in ThreadIds, h \in ThreadHandleIds, h2 \in ThreadHandleIds :
       /\ heap[1].status = "live"
       /\ CloneSource(h)
       /\ CloneTarget(h2) \/ NoCloneTarget
       /\ TCloneRead(t, h, h2)
       /\ UNCHANGED <<cellvars, mycellvars, overflow_checks>>
  \/ \E t \in ThreadIds : TCloneWrite(t) /\ UNCHANGED <<cellvars, mycellvars, overflow_checks>>
  \/ \E t \in ThreadIds, h \in ThreadHandleIds :
       /\ heap[1].status = "live"
       /\ DropTarget(h)
       /\ TDropRead(t, h)
       /\ UNCHANGED <<cellvars, mycellvars, overflow_checks>>
  \/ \E t \in ThreadIds : TDropWrite(t) /\ UNCHANGED <<cellvars, mycellvars, overflow_checks>>

SpecRcThreads == InitRcThreads /\ [][NextRcThreads]_vars
SpecRefCellWrap == Init /\ [][NextRefCellWrap]_vars
SpecRcWrap == InitRcWrap /\ [][NextRcWrap]_vars
SpecRefCell == Init /\ [][NextRefCell]_vars
SpecRc == Init /\ [][NextRc]_vars

TypeOK ==
  /\ value \in Values
  /\ MyCell_get(reference) \in RefState
  /\ refs \subseteq GuardIds
  /\ muts \subseteq GuardIds
  /\ panicked \in BOOLEAN
  /\ overflow_checks \in BOOLEAN
  /\ handles \in [HandleIds -> 0 .. MaxAllocs]
  /\ \A a \in AllocIds :
       /\ heap[a].status \in {"unalloc", "live", "freed"}
       /\ heap[a].value \in RcValues
       /\ MyCell_get(heap[a].ref_count) \in Usize

(***************************************************************************)
(* Properties.                                                             *)
(***************************************************************************)
State == MyCell_get(reference)
NoGuard == refs = {} /\ muts = {}
RefCount(a) == MyCell_get(heap[a].ref_count)

\* C1: at most one RefMut guard is live, and while a RefMut guard is live no
\* Ref guard is live.
C1_ExclusiveIsAlone ==
  /\ Cardinality(muts) <= 1
  /\ muts # {} => refs = {}

\* a RefMut is live and a borrow() was attempted beside it
C1_Witness == Cardinality(muts) = 1 /\ last.op = "borrow" /\ ~last.some

\* C2: the stored RefState mirrors the live guards: Unshared iff no guard,
\* Shared(n) iff exactly n Ref and no RefMut, Exclusive iff exactly one
\* RefMut and no Ref.
C2_StateMirrorsGuards ==
  /\ (State = Unshared) <=> NoGuard
  /\ \A n \in 1 .. (UsizeMod - 1) :
       (State = Shared(n)) <=> (Cardinality(refs) = n /\ muts = {})
  /\ (State = Exclusive) <=> (Cardinality(muts) = 1 /\ refs = {})

\* two Ref guards remain after a third was released
C2_Witness == State = Shared(2) /\ last.op = "drop_ref" /\ Cardinality(refs) = 2

\* C3: an allocation is not deallocated while a handle to it is live.
C3_NoUseAfterFree ==
  \A h \in HandleIds : handles[h] # 0 => heap[handles[h]].status = "live"

\* a handle of a shared allocation was dropped and another one is still live
C3_Witness ==
  /\ rclast.op = "drop"
  /\ HandlesOf(rclast.a) # {}
  /\ heap[rclast.a].status = "live"

\* C4: an allocation is deallocated exactly once: it is freed in the state
\* after the drop of its last handle, not before, and never a second time.
C4_FreedExactlyOnce ==
  \A a \in AllocIds :
    /\ heap[a].frees <= 1
    /\ (heap[a].status = "freed") <=> (heap[a].frees = 1)
    /\ (heap[a].status = "freed") <=> (heap[a].status # "unalloc" /\ HandlesOf(a) = {})

\* an allocation has been freed by the drop of its last handle while another
\* allocation, with two handles, stays
C4_Witness ==
  /\ rclast.op = "drop"
  /\ heap[rclast.a].status = "freed"
  /\ heap[rclast.a].frees = 1
  /\ \E b \in AllocIds : b # rclast.a /\ Cardinality(HandlesOf(b)) = 2

\* C5: the stored ref_count of an allocation that has not been deallocated
\* equals the number of live handles that reference it.
C5_CountIsHandles ==
  \A a \in AllocIds :
    heap[a].status = "live" => RefCount(a) = Cardinality(HandlesOf(a))

\* one of three handles was dropped: the count is back to 2
C5_Witness ==
  /\ rclast.op = "drop"
  /\ rclast.read = 3
  /\ heap[rclast.a].status = "live"
  /\ RefCount(rclast.a) = 2

\* C6, as stated: the count is not zero while a handle is alive, and it is
\* zero once the allocation has been deallocated.
C6_ZeroAtDealloc ==
  \A a \in AllocIds :
    /\ HandlesOf(a) # {} => RefCount(a) # 0
    /\ heap[a].status = "freed" => RefCount(a) = 0

\* C6, amended: the step that deallocates does not make the count 0: the
\* drop read 1 and stores nothing, so the count stored at deallocation is 1.
\* The count of a live allocation becomes 0 in one step only, a clone at
\* usize::MAX in a build without overflow checks; in a build with overflow
\* checks the count is not 0 while a handle is alive.
C6_OneAtDealloc ==
  /\ [][\A a \in AllocIds :
          (heap[a].status = "live" /\ heap'[a].status = "freed") =>
            /\ RefCount(a) = 1
            /\ heap'[a].ref_count = heap[a].ref_count
            /\ rclast'.op = "drop" /\ rclast'.read = 1]_vars
  /\ [][\A a \in AllocIds :
          (heap[a].status = "live" /\ RefCount(a) # 0
             /\ MyCell_get(heap'[a].ref_count) = 0) =>
            /\ ~overflow_checks
            /\ rclast'.op = "clone"
            /\ rclast'.read = UsizeMod - 1]_vars
  /\ [](overflow_checks =>
          \A a \in AllocIds : HandlesOf(a) # {} => RefCount(a) # 0)

\* the drop of the last handle has deallocated the allocation, and the count
\* stored in it is 1
C6_Witness ==
  /\ rclast.op = "drop"
  /\ rclast.read = 1
  /\ heap[rclast.a].status = "freed"
  /\ heap[rclast.a].frees = 1
  /\ HandlesOf(rclast.a) = {}
  /\ RefCount(rclast.a) = 1

\* C7: borrow_mut() returns a guard iff no guard of either kind is live; a
\* denied call leaves a guard live, a granted call's RefMut is the only guard.
C7_BorrowMutIffNoGuard ==
  /\ MyRefCell_borrow_mut(reference).some <=> NoGuard
  /\ (last.op = "borrow_mut" /\ ~last.some) => ~NoGuard
  /\ (last.op = "borrow_mut" /\ last.some) => (Cardinality(muts) = 1 /\ refs = {})

\* a second borrow_mut() while the first RefMut is live was denied
C7_Witness == last.op = "borrow_mut" /\ ~last.some /\ muts # {}

\* C8, as stated: borrow() from Unshared returns a guard and sets Shared(1),
\* from Shared(n) returns a guard and sets Shared(n+1) for every n, from
\* Exclusive returns None; so it succeeds exactly while no RefMut is live.
C8_BorrowUnbounded ==
  LET r == MyRefCell_borrow(reference) IN
  /\ State = Unshared => (r.some /\ MyCell_get(r.reference) = Shared(1))
  /\ State.tag = "Shared" => (r.some /\ MyCell_get(r.reference) = Shared(State.n + 1))
  /\ State = Exclusive => (~r.some /\ r.reference = reference)
  /\ r.some <=> (muts = {})
  /\ last.op = "borrow" =>
       IF last.pre = Exclusive
         THEN ~last.some /\ State = Exclusive
         ELSE last.some /\ State = Shared(last.pre.n + 1)

\* C8, amended: borrow() from Unshared returns a guard and sets Shared(1),
\* from Shared(n) with n below usize::MAX returns a guard and sets
\* Shared(n+1), from Exclusive returns None.  From Shared(usize::MAX) a build
\* with overflow checks panics, storing nothing and returning no guard, and
\* a build without them stores Shared(0) and returns a guard.  It returns
\* None exactly while a RefMut is live.
C8_BorrowCounts ==
  LET r == MyRefCell_borrow(reference)
      max == UsizeMod - 1 IN
  /\ State = Unshared =>
       (r.some /\ ~r.panic /\ MyCell_get(r.reference) = Shared(1))
  /\ (State.tag = "Shared" /\ State.n < max) =>
       (r.some /\ ~r.panic /\ MyCell_get(r.reference) = Shared(State.n + 1))
  /\ State = Shared(max) =>
       IF overflow_checks
         THEN r.panic /\ ~r.some /\ r.reference = reference
         ELSE ~r.panic /\ r.some /\ MyCell_get(r.reference) = Shared(0)
  /\ State = Exclusive => (~r.some /\ ~r.panic /\ r.reference = reference)
  /\ (r.some \/ r.panic) <=> (muts = {})
  /\ last.op = "borrow" =>
       CASE last.pre = Exclusive -> ~last.some /\ State = Exclusive
         [] last.pre = Shared(max) ->
              ~overflow_checks /\ last.some /\ State = Shared(0)
         [] OTHER -> last.some /\ State = Shared(last.pre.n + 1)
  /\ last.op = "borrow_panic" =>
       (overflow_checks /\ last.pre = Shared(max) /\ ~last.some /\ State = last.pre)

\* borrow() was called at Shared(usize::MAX), every guard unreleased
C8_Witness ==
  /\ last.op \in {"borrow", "borrow_panic"}
  /\ last.pre = Shared(UsizeMod - 1)
  /\ Cardinality(refs) >= UsizeMod - 1

\* C9: after the last Ref is released borrow_mut() succeeds; after the RefMut
\* is released borrow() and borrow_mut() succeed; once every guard is
\* released the cell is Unshared.
C9_ReleaseRestores ==
  /\ (last.op = "drop_ref" /\ refs = {}) => MyRefCell_borrow_mut(reference).some
  /\ last.op = "drop_mut" =>
       (MyRefCell_borrow(reference).some /\ MyRefCell_borrow_mut(reference).some)
  /\ NoGuard => State = Unshared

\* the last of the Ref guards has just been released
C9_Witness == last.op = "drop_ref" /\ last.pre = Shared(1) /\ NoGuard

\* C10: no guard release reaches unreachable!(): a live Ref finds Shared(n)
\* with n >= 1 and a live RefMut finds Exclusive.
C10_NoFatalRelease ==
  /\ ~panicked
  /\ refs # {} => (~Ref_drop(reference).panic /\ State.n >= 1)
  /\ muts # {} => ~RefMut_drop(reference).panic
  /\ last.op = "drop_ref" => (last.pre.tag = "Shared" /\ last.pre.n >= 1)
  /\ last.op = "drop_mut" => last.pre = Exclusive

\* a RefMut was released at Exclusive, without a fault
C10_Witness == last.op = "drop_mut" /\ last.pre = Exclusive /\ ~panicked

\* C11: a live handle dereferences to the value passed to new for its
\* allocation: new stores it, no operation changes it, clone yields a handle
\* to the allocation of its source, and deref reads it.
C11_HandlesReadNewValue ==
  /\ [](rclast.op = "new" =>
          (handles[rclast.h] = rclast.a /\ heap[rclast.a].value = rclast.read))
  /\ [](rclast.op = "deref" =>
          (handles[rclast.h] = rclast.a /\ rclast.read = heap[rclast.a].value))
  /\ [][\A a \in AllocIds :
          heap[a].status # "unalloc" => heap'[a].value = heap[a].value]_vars
  /\ [][\A h \in HandleIds :
          (handles[h] = 0 /\ handles'[h] # 0 /\ rclast'.op = "clone") =>
            (\E src \in HandleIds : handles[src] = handles'[h])]_vars

\* the one handle left of an allocation reads the greatest value given to
\* new, after another allocation has been deallocated
C11_Witness ==
  /\ rclast.op = "deref"
  /\ rclast.read = MaxRcVal
  /\ Cardinality(HandlesOf(rclast.a)) = 1
  /\ \E b \in AllocIds : b # rclast.a /\ heap[b].status = "freed"

\* a step that drops handle h
DropStep(h) == handles[h] # 0 /\ handles'[h] = 0

\* C12: a drop at ref_count > 1 decreases ref_count by exactly 1 and leaves
\* the allocation live with its value; a drop at ref_count = 1 deallocates
\* it; no other allocation is touched.
C12_DropEffect ==
  [][\A h \in HandleIds :
       DropStep(h) =>
         LET a == handles[h] IN
         /\ IF RefCount(a) > 1
              THEN /\ MyCell_get(heap'[a].ref_count) = RefCount(a) - 1
                   /\ heap'[a].status = "live"
                   /\ heap'[a].value = heap[a].value
              ELSE heap'[a].status = "freed"
         /\ \A b \in AllocIds \ {a} : heap'[b] = heap[b]]_vars

\* a drop at ref_count = 2 left the allocation live with count 1
C12_Witness ==
  /\ rclast.op = "drop"
  /\ rclast.read = 2
  /\ heap[rclast.a].status = "live"
  /\ RefCount(rclast.a) = 1
  /\ Cardinality(HandlesOf(rclast.a)) = 1

\* C15: the borrow state is never Shared(0): it is Unshared, Exclusive or
\* Shared(n) with n >= 1, and a Ref released at Shared(1) leaves Unshared.
C15_NeverSharedZero ==
  /\ State \in {Unshared, Exclusive} \cup {Shared(n) : n \in 1 .. (UsizeMod - 1)}
  /\ (last.op = "drop_ref" /\ last.pre = Shared(1)) => State = Unshared

\* the only live Ref was released at Shared(1)
C15_Witness ==
  /\ last.op = "drop_ref"
  /\ last.pre = Shared(1)
  /\ State.tag = "Unshared"

\* C16: the interior value changes only by a write through a live RefMut,
\* which is then the only guard; every other operation leaves it, and a
\* dereference reads the value as last written.
C16_ValueFrame ==
  /\ [][value' # value =>
          /\ Cardinality(muts) = 1
          /\ refs = {}
          /\ last'.op = "write"
          /\ value' = last'.read]_vars
  /\ [][last'.op \in {"borrow", "borrow_mut", "drop_ref", "drop_mut", "deref"} =>
          value' = value]_vars
  /\ [](last.op \in {"deref", "write"} => last.read = value)

\* a Ref reads the interior value
C16_Witness ==
  /\ last.op = "deref"
  /\ refs # {}
  /\ last.read = value

\* C17: a denied borrow() or borrow_mut() leaves the stored RefState, the
\* live guards and the value as they were.
C17_DeniedChangesNothing ==
  [][(last'.op \in {"borrow", "borrow_mut"} /\ ~last'.some) =>
       /\ reference' = reference
       /\ refs' = refs
       /\ muts' = muts
       /\ value' = value
       /\ panicked' = panicked]_vars

\* borrow_mut() was denied beside two live Ref guards
C17_Witness ==
  /\ last.op = "borrow_mut"
  /\ ~last.some
  /\ Cardinality(refs) = 2
  /\ State = Shared(2)

\* C13: get returns the argument of the most recent set on the cell, or the
\* value passed to new if no set has happened, and get changes nothing.
C13_GetReturnsLastSet ==
  /\ [](\A c \in CellIds : MyCell_get(cells[c]) = shadow[c].v)
  /\ [](clast.op = "get" => clast.v = shadow[clast.c].v)
  /\ [][clast'.op = "get" => cells' = cells]_vars

\* get has returned the argument of a set, on a cell beside one never set
C13_Witness ==
  /\ clast.op = "get"
  /\ shadow[clast.c].by = "set"
  /\ clast.v = shadow[clast.c].v
  /\ \E d \in CellIds : shadow[d].by = "new" /\ shadow[d].v # clast.v

\* C14: swap of two distinct cells holding A and B leaves the first holding B
\* and the second holding A and changes no other cell; swap of a cell with
\* itself leaves its value unchanged.
C14_SwapExchanges ==
  [][clast'.op = "swap" =>
       LET c == clast'.c
           d == clast'.d IN
       /\ MyCell_get(cells'[c]) = MyCell_get(cells[d])
       /\ MyCell_get(cells'[d]) = MyCell_get(cells[c])
       /\ \A e \in CellIds \ {c, d} : cells'[e] = cells[e]]_vars

\* two distinct cells with different values have been swapped
C14_Witness ==
  /\ clast.op = "swap"
  /\ clast.c # clast.d
  /\ MyCell_get(cells[clast.c]) # MyCell_get(cells[clast.d])

\* C18: with the shared count wrapping at the width of usize, borrow_mut()
\* is never granted while a handed-out Ref guard is unreleased.
C18_NoRefMutBesideRef ==
  /\ MyRefCell_borrow_mut(reference).some => refs = {}
  /\ (last.op = "borrow_mut" /\ last.some) => refs = {}

\* C19: with ref_count wrapping at the width of usize, ref_count is not 0
\* and the allocation is not deallocated while a handle references it.
C19_NoCountWrap ==
  \A a \in AllocIds :
    HandlesOf(a) # {} => (RefCount(a) # 0 /\ heap[a].status = "live")

\* C20: the count update of clone and drop is a read followed by a write,
\* not one step: the write stores the count read earlier plus or minus one
\* (or frees when 1 was read), so an update another thread made between the
\* read and the write is lost.  (A write whose plus or minus one panics
\* stores nothing.)
C20_UpdateNotAtomic ==
  [][\A t \in ThreadIds :
       LET ts == tstate[t] IN
       /\ (ts.pc = "clone" /\ tstate'[t].pc = "idle") =>
            IF ClonePanics(ts.current_refs)
              THEN heap' = heap /\ handles' = handles
              ELSE /\ MyCell_get(heap'[ts.a].ref_count) =
                        UsizeAdd(ts.current_refs, 1, overflow_checks)
                   /\ (RefCount(ts.a) # ts.current_refs =>
                         MyCell_get(heap'[ts.a].ref_count) #
                           UsizeAdd(RefCount(ts.a), 1, FALSE))
       /\ (ts.pc = "drop" /\ tstate'[t].pc = "idle") =>
            IF ts.current_refs = 1
              THEN heap'[ts.a].status = "freed"
              ELSE IF DropPanics(ts.current_refs)
                THEN heap' = heap
                ELSE MyCell_get(heap'[ts.a].ref_count) =
                       UsizeSub(ts.current_refs, 1, overflow_checks)]_vars

\* in a build where the count cannot wrap: no operation is in progress,
\* ref_count has lost updates and the allocation has been deallocated while
\* handles to it are live
C20_Witness ==
  /\ overflow_checks
  /\ \A t \in ThreadIds : tstate[t].pc = "idle"
  /\ \E a \in AllocIds :
       /\ heap[a].status = "freed"
       /\ heap[a].frees = 1
       /\ HandlesOf(a) # {}
       /\ RefCount(a) # Cardinality(HandlesOf(a))

====
